---- MODULE Spec2Model ----
(***************************************************************************)
(* Model of std::future::join of the rune runtime                          *)
(* (crates/rune/src/modules/future.rs): the raw_join calling-convention    *)
(* adapter, the async fn join (shape match) and the async fn               *)
(* try_join_impl (coercion loop, FuturesUnordered wait loop, factory).     *)
(*                                                                         *)
(* A Value of the stack is a record [kind, elems]; the elements of a tuple *)
(* or vector are shared handles, each with a runtime type (KindOf) and an  *)
(* access state (exclusive access is what Value::into_kind_mut takes).     *)
(* Indices are 0-based as in the source; slot i of results is results[i+1].*)
(***************************************************************************)
EXTENDS Integers, Sequences, FiniteSets, TLC

(* ---------------- bounds of the model ---------------- *)
MaxLen == 3
MaxPolls == 1
MaxArgs == 2
MaxStack == 2

(* ---------------- the value model ---------------- *)
FutureHandles == {"f1", "f2", "f3"}
OtherHandles == {"i1", "s1"}
Handles == FutureHandles \cup OtherHandles

\* Values a contained future may complete with, and failures it may report.
Values == {"a", "b"}
Failures == {"e1", "e2"}

\* type_info() of the element behind a handle
KindOf(h) ==
    IF h \in FutureHandles THEN "Future"
    ELSE IF h = "i1" THEN "Integer" ELSE "String"

\* Value::empty()
Empty == "Empty"
EmptyValue == [kind |-> "EmptyTuple", elems |-> <<>>]
IntegerValue == [kind |-> "Integer", elems |-> <<>>]
StringValue == [kind |-> "String", elems |-> <<>>]
\* A Future value that is not the one raw_join creates
ForeignFuture == [kind |-> "Future", elems |-> <<>>]
\* Future::new(join(value)): the pending computation raw_join pushes
JoinFuture == [kind |-> "Future", elems |-> <<"join">>]
NoValue == [kind |-> "None", elems |-> <<>>]

RECURSIVE SeqsUpTo(_, _)
SeqsUpTo(S, n) ==
    IF n = 0 THEN {<<>>}
    ELSE LET shorter == SeqsUpTo(S, n - 1)
         IN shorter \cup {Append(s, x) : s \in {t \in shorter : Len(t) = n - 1}, x \in S}

\* The values an argument of join may be
Inputs ==
    {EmptyValue, IntegerValue, StringValue, ForeignFuture}
    \cup {[kind |-> k, elems |-> es] : k \in {"Tuple", "Vec"}, es \in SeqsUpTo(Handles, MaxLen)}

\* The arguments tried on a stack that holds other values below them
ShortInputs == {v \in Inputs : Len(v.elems) <= 1}

\* The stacks raw_join is called with: the argument on top (the end of the
\* sequence), integers below it.
Stacks ==
    {<<>>} \cup {<<top>> : top \in Inputs} \cup
    {Append([j \in 1..n |-> IntegerValue], top) : n \in 1..(MaxStack - 1), top \in ShortInputs}

(* ---------------- errors ---------------- *)
\* VmErrorKind::BadArgumentCount
BadArgumentCount(actual, expected) ==
    [kind |-> "BadArgumentCount", actual |-> actual, expected |-> expected]
\* VmErrorKind::bad_argument
BadArgument(arg) == [kind |-> "BadArgument", arg |-> arg]
\* VmErrorKind::expected::<T>(actual)
Expected(expected, actual) == [kind |-> "Expected", expected |-> expected, actual |-> actual]
\* the access error of into_kind_mut on a value that is already borrowed
AccessError(h) == [kind |-> "AccessError", value |-> h]
\* the error of Stack::pop on an empty stack
StackError == [kind |-> "StackError"]
\* the failure a contained future completed with, passed through by vm_try!
RuntimeFailure(e) == [kind |-> "RuntimeFailure", failure |-> e]

NoOutput == [status |-> "none", value |-> NoValue, error |-> <<>>]
OutputOk(v) == [status |-> "ok", value |-> v, error |-> <<>>]
OutputErr(e) == [status |-> "err", value |-> NoValue, error |-> e]

VARIABLES
    args,        \* raw_join's args
    stack,       \* raw_join's stack
    rawResult,   \* what raw_join returned: NoOutput, OutputOk(EmptyValue) or OutputErr
    pc,          \* position of the call and of the pending computation
    value,       \* the Value moved into join(value)
    index,       \* the position the coercion loop is at
    futures,     \* FuturesUnordered: set of SelectFuture [index, future]
    queue,       \* the tasks FuturesUnordered has ready to poll
    results,     \* the results vector
    access,      \* per handle: "free" or "mut" (exclusively held by a Mut guard)
    output,      \* what the pending computation resolved with
    polls,       \* per handle: how many times its computation was polled
    writes,      \* per slot: how many times a completion wrote it
    events,      \* the completion events handled, in order
    suspensions, \* how many times the pending computation returned Pending
    outerPolls   \* how many times the pending computation was polled

vars == <<args, stack, rawResult, pc, value, index, futures, queue, results,
          access, output, polls, writes, events, suspensions, outerPolls>>

Init ==
    /\ args \in 0..MaxArgs
    /\ stack \in Stacks
    /\ Len(stack) >= args
    /\ rawResult = NoOutput
    /\ pc = "call"
    /\ value = NoValue
    /\ index = 0
    /\ futures = {}
    /\ queue = {}
    /\ results = <<>>
    /\ access = [h \in Handles |-> "free"]
    /\ output = NoOutput
    /\ polls = [h \in Handles |-> 0]
    /\ writes = <<>>
    /\ events = <<>>
    /\ suspensions = 0
    /\ outerPolls = 0

(* ---------------- raw_join ---------------- *)
\* mutant: the check lets a call without arguments through
ArityOkLax(n) == n <= 1
\* the check `args != 1` of raw_join, negated
ArityOk(n) == n = 1

\* stack.pop(): the value and the stack without it
Top(s) == s[Len(s)]
Pop(s) == SubSeq(s, 1, Len(s) - 1)

\* mutant: the adapter runs the shape match itself instead of deferring it
RawJoinEager ==
    /\ pc = "call"
    /\ IF ~ArityOk(args)
       THEN /\ rawResult' = OutputErr(<<BadArgumentCount(args, 1)>>)
            /\ pc' = "failed"
            /\ UNCHANGED <<stack, value>>
       ELSE IF stack = <<>>
       THEN /\ rawResult' = OutputErr(<<StackError>>)
            /\ pc' = "failed"
            /\ UNCHANGED <<stack, value>>
       ELSE IF Top(stack).kind \notin {"EmptyTuple", "Tuple", "Vec"}
       THEN /\ rawResult' = OutputErr(<<BadArgument(0)>>)
            /\ pc' = "failed"
            /\ value' = Top(stack)
            /\ stack' = Pop(stack)
       ELSE /\ value' = Top(stack)
            /\ stack' = Append(Pop(stack), JoinFuture)
            /\ rawResult' = OutputOk(EmptyValue)
            /\ pc' = "created"
    /\ UNCHANGED <<args, index, futures, queue, results, access, output, polls,
                   writes, events, suspensions, outerPolls>>

RawJoin ==
    /\ pc = "call"
    /\ IF ~ArityOk(args)
       THEN /\ rawResult' = OutputErr(<<BadArgumentCount(args, 1)>>)
            /\ pc' = "failed"
            /\ UNCHANGED <<stack, value>>
       ELSE IF stack = <<>>
       THEN /\ rawResult' = OutputErr(<<StackError>>)
            /\ pc' = "failed"
            /\ UNCHANGED <<stack, value>>
       ELSE /\ value' = Top(stack)
            /\ stack' = Append(Pop(stack), JoinFuture)
            /\ rawResult' = OutputOk(EmptyValue)
            /\ pc' = "created"
    /\ UNCHANGED <<args, index, futures, queue, results, access, output, polls,
                   writes, events, suspensions, outerPolls>>

(* ---------------- join: the shape match ---------------- *)
\* the arm of the match in join that a value takes
Classify(v) ==
    CASE v.kind = "EmptyTuple" -> "Empty"
      [] v.kind = "Tuple" -> "Tuple"
      [] v.kind = "Vec" -> "Vec"
      [] OTHER -> "Unsupported"

\* mutant: the error reports the expected type as the actual one
UnsupportedErrorNoActual(v) == <<BadArgument(0), Expected("Vec", "Vec")>>
\* the error of the `_` arm of join
UnsupportedError(v) == <<BadArgument(0), Expected("Vec", v.kind)>>

\* First poll of the pending computation: the match of join; for a tuple or
\* a vector, the entry of try_join_impl (empty FuturesUnordered, empty
\* results with capacity len).
Start ==
    /\ pc = "created"
    /\ outerPolls' = outerPolls + 1
    /\ CASE Classify(value) = "Empty" ->
              /\ output' = OutputOk(EmptyValue)
              /\ pc' = "done"
              /\ UNCHANGED <<index, futures, queue, results, writes>>
         [] Classify(value) \in {"Tuple", "Vec"} ->
              /\ pc' = "coerce"
              /\ index' = 0
              /\ futures' = {}
              /\ queue' = {}
              /\ results' = <<>>
              /\ writes' = <<>>
              /\ UNCHANGED output
         [] OTHER ->
              /\ output' = OutputErr(UnsupportedError(value))
              /\ pc' = "done"
              /\ UNCHANGED <<index, futures, queue, results, writes>>
    /\ UNCHANGED <<args, stack, rawResult, value, access, polls, events, suspensions>>

(* ---------------- try_join_impl: the coercion loop ---------------- *)
\* mutant: the composite error names the outer argument, not the element
CoerceErrorArgZero(i, h) == <<Expected("Future", KindOf(h)), BadArgument(0)>>
\* the composite error of a non-future element
CoerceError(i, h) == <<Expected("Future", KindOf(h)), BadArgument(i)>>

\* mutant: the task does not record the position of its element
SelectFutureNoIndex(i, h) == [index |-> 0, future |-> h]
\* SelectFuture::new(index, future)
SelectFuture(i, h) == [index |-> i, future |-> h]

\* dropping every Mut guard the join holds
ReleaseAll == [h \in Handles |-> "free"]

\* mutant: the positions are paired with the elements in reverse order
ElementAtReversed(v, i) == v.elems[Len(v.elems) - i]
\* the element `values.into_iter().enumerate()` yields with position i
ElementAt(v, i) == v.elems[i + 1]

\* Value::into_kind_mut refuses a value that is already borrowed
IntoKindMutFails(acc, h) == acc[h] # "free"

\* mutant: the guard is dropped right after coercion, not kept by the task
AcquireAndRelease(acc, h) == acc
\* the Mut guard of the element moves into the SelectFuture and stays there
Acquire(acc, h) == [acc EXCEPT ![h] = "mut"]

\* mutant: a future is polled once as soon as it is registered
CoerceAndPoll ==
    /\ pc = "coerce"
    /\ index < Len(value.elems)
    /\ LET h == ElementAt(value, index) IN
         IF IntoKindMutFails(access, h)
         THEN \* vm_try!(value.clone().into_kind_mut()) fails
              /\ output' = OutputErr(<<AccessError(h)>>)
              /\ pc' = "done"
              /\ futures' = {}
              /\ queue' = {}
              /\ results' = <<>>
              /\ access' = ReleaseAll
              /\ UNCHANGED <<index, writes>>
         ELSE IF KindOf(h) # "Future"
         THEN \* Mut::try_map gives Err(actual)
              /\ output' = OutputErr(CoerceError(index, h))
              /\ pc' = "done"
              /\ futures' = {}
              /\ queue' = {}
              /\ results' = <<>>
              /\ access' = ReleaseAll
              /\ UNCHANGED <<index, writes>>
         ELSE /\ futures' = futures \cup {SelectFuture(index, h)}
              /\ queue' = queue \cup {SelectFuture(index, h)}
              /\ results' = Append(results, Empty)
              /\ writes' = Append(writes, 0)
              /\ access' = Acquire(access, h)
              /\ index' = index + 1
              /\ UNCHANGED <<output, pc>>
    /\ polls' = [h \in Handles |->
                    IF h = ElementAt(value, index) /\ access[h] = "free" /\ KindOf(h) = "Future"
                    THEN polls[h] + 1 ELSE polls[h]]
    /\ UNCHANGED <<args, stack, rawResult, value, events, suspensions, outerPolls>>

\* One iteration of `for (index, value) in values.into_iter().enumerate()`
Coerce ==
    /\ pc = "coerce"
    /\ index < Len(value.elems)
    /\ LET h == ElementAt(value, index) IN
         IF IntoKindMutFails(access, h)
         THEN \* vm_try!(value.clone().into_kind_mut()) fails
              /\ output' = OutputErr(<<AccessError(h)>>)
              /\ pc' = "done"
              /\ futures' = {}
              /\ queue' = {}
              /\ results' = <<>>
              /\ access' = ReleaseAll
              /\ UNCHANGED <<index, writes>>
         ELSE IF KindOf(h) # "Future"
         THEN \* Mut::try_map gives Err(actual)
              /\ output' = OutputErr(CoerceError(index, h))
              /\ pc' = "done"
              /\ futures' = {}
              /\ queue' = {}
              /\ results' = <<>>
              /\ access' = ReleaseAll
              /\ UNCHANGED <<index, writes>>
         ELSE /\ futures' = futures \cup {SelectFuture(index, h)}
              /\ queue' = queue \cup {SelectFuture(index, h)}
              /\ results' = Append(results, Empty)
              /\ writes' = Append(writes, 0)
              /\ access' = Acquire(access, h)
              /\ index' = index + 1
              /\ UNCHANGED <<output, pc>>
    /\ UNCHANGED <<args, stack, rawResult, value, polls, events, suspensions, outerPolls>>

\* The end of the for loop: control reaches `while !futures.is_empty()`
EnterWait ==
    /\ pc = "coerce"
    /\ index = Len(value.elems)
    /\ pc' = "wait"
    /\ UNCHANGED <<args, stack, rawResult, value, index, futures, queue, results,
                   access, output, polls, writes, events, suspensions, outerPolls>>

(* ---------------- try_join_impl: the wait loop ---------------- *)
\* mutant: the loop ends while one task is still waiting
IsEmptyOffByOne(futs) == Cardinality(futs) <= 1
\* futures.is_empty()
IsEmpty(futs) == futs = {}

\* mutant: the value goes to the first slot not written yet (completion order)
WriteSlotInCompletionOrder(res, task, val) ==
    LET free == {k \in DOMAIN res : res[k] = Empty}
        slot == IF free = {} THEN task.index + 1
                ELSE CHOOSE k \in free : \A m \in free : k <= m
    IN [res EXCEPT ![slot] = val]
\* mutant: the value is pushed at the end of results
WriteSlotAppend(res, task, val) == Append(res, val)
\* mutant: the value is stored in every slot
WriteSlotAll(res, task, val) == [k \in DOMAIN res |-> val]
\* *results.get_mut(index).unwrap() = value
WriteSlot(res, task, val) == [res EXCEPT ![task.index + 1] = val]

\* mutant: the tuple factory builds a vector
TupleFactoryAsVec(vec) == [kind |-> "Vec", elems |-> vec]
\* |vec| Value::tuple(vec), the factory join passes for a tuple
TupleFactory(vec) == [kind |-> "Tuple", elems |-> vec]
\* Value::vec, the factory join passes for a vector
VecFactory(vec) == [kind |-> "Vec", elems |-> vec]

\* futures.next() polls a queued task, which is not ready yet
TaskPending(t) ==
    /\ pc = "wait"
    /\ ~IsEmpty(futures)
    /\ t \in futures \cap queue
    /\ polls[t.future] < MaxPolls
    /\ polls' = [polls EXCEPT ![t.future] = @ + 1]
    /\ queue' = queue \ {t}
    /\ UNCHANGED <<args, stack, rawResult, pc, value, index, futures, results,
                   access, output, writes, events, suspensions, outerPolls>>

\* futures.next() yields Ok((index, value)) of a queued task: the slot write
TaskReady(t, v) ==
    /\ pc = "wait"
    /\ ~IsEmpty(futures)
    /\ t \in futures \cap queue
    /\ polls' = [polls EXCEPT ![t.future] = @ + 1]
    /\ futures' = futures \ {t}
    /\ queue' = queue \ {t}
    /\ access' = [access EXCEPT ![t.future] = "free"]
    /\ results' = WriteSlot(results, t, v)
    /\ writes' = [writes EXCEPT ![t.index + 1] = @ + 1]
    /\ events' = Append(events, [index |-> t.index, future |-> t.future,
                                 ok |-> TRUE, result |-> v])
    /\ UNCHANGED <<args, stack, rawResult, pc, value, index, output,
                   suspensions, outerPolls>>

\* mutant: the failure is kept but the loop goes on with the other tasks
TaskFailedContinue(t, e) ==
    /\ pc = "wait"
    /\ ~IsEmpty(futures)
    /\ t \in futures \cap queue
    /\ polls' = [polls EXCEPT ![t.future] = @ + 1]
    /\ futures' = futures \ {t}
    /\ queue' = queue \ {t}
    /\ access' = [access EXCEPT ![t.future] = "free"]
    /\ events' = Append(events, [index |-> t.index, future |-> t.future,
                                 ok |-> FALSE, result |-> e])
    /\ UNCHANGED <<args, stack, rawResult, pc, value, index, results, output,
                   writes, suspensions, outerPolls>>

\* futures.next() yields the Err of a queued task: vm_try! returns it
TaskFailed(t, e) ==
    /\ pc = "wait"
    /\ ~IsEmpty(futures)
    /\ t \in futures \cap queue
    /\ polls' = [polls EXCEPT ![t.future] = @ + 1]
    /\ output' = OutputErr(<<RuntimeFailure(e)>>)
    /\ pc' = "done"
    /\ futures' = {}
    /\ queue' = {}
    /\ results' = <<>>
    /\ access' = ReleaseAll
    /\ events' = Append(events, [index |-> t.index, future |-> t.future,
                                 ok |-> FALSE, result |-> e])
    /\ UNCHANGED <<args, stack, rawResult, value, index, writes,
                   suspensions, outerPolls>>

\* mutant: the loop awaits the next completion before it tests for emptiness
SuspendBeforeTest ==
    /\ pc = "wait"
    /\ futures \cap queue = {}
    /\ pc' = "suspended"
    /\ suspensions' = suspensions + 1
    /\ UNCHANGED <<args, stack, rawResult, value, index, futures, queue, results,
                   access, output, polls, writes, events, outerPolls>>

\* futures.next().await with no task ready: the pending computation suspends
Suspend ==
    /\ pc = "wait"
    /\ ~IsEmpty(futures)
    /\ futures \cap queue = {}
    /\ pc' = "suspended"
    /\ suspensions' = suspensions + 1
    /\ UNCHANGED <<args, stack, rawResult, value, index, futures, queue, results,
                   access, output, polls, writes, events, outerPolls>>

\* mutant: only the waker of the task of position 0 reaches the join
WakeFirstOnly(t) ==
    /\ pc = "suspended"
    /\ t \in futures \ queue
    /\ t.index = 0
    /\ queue' = queue \cup {t}
    /\ UNCHANGED <<args, stack, rawResult, pc, value, index, futures, results,
                   access, output, polls, writes, events, suspensions, outerPolls>>

\* the waker of a suspended task fires: FuturesUnordered queues the task
Wake(t) ==
    /\ pc = "suspended"
    /\ t \in futures \ queue
    /\ queue' = queue \cup {t}
    /\ UNCHANGED <<args, stack, rawResult, pc, value, index, futures, results,
                   access, output, polls, writes, events, suspensions, outerPolls>>

\* the executor polls the woken pending computation again
Resume ==
    /\ pc = "suspended"
    /\ queue # {}
    /\ pc' = "wait"
    /\ outerPolls' = outerPolls + 1
    /\ UNCHANGED <<args, stack, rawResult, value, index, futures, queue, results,
                   access, output, polls, writes, events, suspensions>>

\* the while loop ends: factory(results)
Finish ==
    /\ pc = "wait"
    /\ IsEmpty(futures)
    /\ output' = OutputOk(IF Classify(value) = "Tuple"
                          THEN TupleFactory(results)
                          ELSE VecFactory(results))
    /\ pc' = "done"
    /\ futures' = {}
    /\ queue' = {}
    /\ results' = <<>>
    /\ access' = ReleaseAll
    /\ UNCHANGED <<args, stack, rawResult, value, index, polls, writes, events,
                   suspensions, outerPolls>>

\* mutant: the tasks were handed to the executor and outlive the join
DropOuterDetached ==
    /\ pc \in {"created", "suspended"}
    /\ pc' = "dropped"
    /\ results' = <<>>
    /\ UNCHANGED <<args, stack, rawResult, value, index, futures, queue, access,
                   output, polls, writes, events, suspensions, outerPolls>>

\* the caller drops the pending computation before it resolved
DropOuter ==
    /\ pc \in {"created", "suspended"}
    /\ pc' = "dropped"
    /\ futures' = {}
    /\ queue' = {}
    /\ results' = <<>>
    /\ access' = ReleaseAll
    /\ UNCHANGED <<args, stack, rawResult, value, index, output, polls, writes,
                   events, suspensions, outerPolls>>

Tasks == {SelectFuture(i, h) : i \in 0..MaxLen, h \in Handles}

Next ==
    \/ RawJoin
    \/ Start
    \/ Coerce
    \/ EnterWait
    \/ \E t \in Tasks : TaskPending(t)
    \/ \E t \in Tasks, v \in Values : TaskReady(t, v)
    \/ \E t \in Tasks, e \in Failures : TaskFailed(t, e)
    \/ Suspend
    \/ \E t \in Tasks : Wake(t)
    \/ Resume
    \/ Finish
    \/ DropOuter

Spec == Init /\ [][Next]_vars

\* the steps the executor and the contained futures take; the caller's drop
\* of the pending computation is not among them
Progress ==
    \/ RawJoin
    \/ Start
    \/ Coerce
    \/ EnterWait
    \/ \E t \in Tasks : TaskPending(t)
    \/ \E t \in Tasks, v \in Values : TaskReady(t, v)
    \/ \E t \in Tasks, e \in Failures : TaskFailed(t, e)
    \/ Suspend
    \/ \E t \in Tasks : Wake(t)
    \/ Resume
    \/ Finish

\* a fair executor: a pending computation that can take a step is polled,
\* and every registered task completes after at most MaxPolls pending polls
FairSpec == Init /\ [][Next]_vars /\ WF_vars(Progress)

(* ======================= properties ======================= *)
Range(f) == {f[k] : k \in DOMAIN f}
NoPolls == \A h \in Handles : polls[h] = 0
\* the argument is a tuple or a vector, so the join runs try_join_impl
IsCollection == Classify(value) \in {"Tuple", "Vec"}
\* position k holds a non-future and the positions before it hold pairwise
\* different futures
FirstNonFutureAt(k) ==
    /\ IsCollection
    /\ k < Len(value.elems)
    /\ KindOf(value.elems[k + 1]) # "Future"
    /\ \A j \in 1..k : KindOf(value.elems[j]) = "Future"
    /\ \A j, m \in 1..k : j # m => value.elems[j] # value.elems[m]
FailureHandled == \E k \in DOMAIN events : ~events[k].ok
AllSlotsWrittenOnce ==
    /\ Len(writes) = Len(value.elems)
    /\ \A k \in DOMAIN writes : writes[k] = 1

\* C1: a join that resolves successfully holds at every position i the value
\* the future of input position i completed with, whatever the order of the
\* completion events was.
C1_PositionalResult ==
    (output.status = "ok" /\ IsCollection) =>
        /\ Len(output.value.elems) = Len(value.elems)
        /\ \A i \in 0..(Len(value.elems) - 1) :
             \E k \in DOMAIN events :
                /\ events[k].ok
                /\ events[k].future = value.elems[i + 1]
                /\ output.value.elems[i + 1] = events[k].result
\* three futures, completed in the order 1, 0, 2 with different values
C1_Witness ==
    /\ output.status = "ok"
    /\ Len(events) = 3
    /\ events[1].future = value.elems[2]
    /\ events[2].future = value.elems[1]
    /\ events[3].future = value.elems[3]
    /\ events[1].result # events[2].result

\* C2: once a task completed with a failure the join is resolved with exactly
\* that failure, no completion is handled after it, the waiting set is empty,
\* no collected value is in the output, and no future is polled any more.
C2_FirstFailureAborts ==
    /\ [](\A k \in DOMAIN events : ~events[k].ok =>
            /\ k = Len(events)
            /\ output = OutputErr(<<RuntimeFailure(events[k].result)>>)
            /\ pc = "done"
            /\ futures = {}
            /\ queue = {})
    /\ [][FailureHandled => polls' = polls]_vars
\* a failure after one sibling completed, with a third sibling still waiting
C2_Witness ==
    /\ Len(value.elems) = 3
    /\ Len(events) = 2
    /\ events[1].ok
    /\ ~events[2].ok
    /\ output.status = "err"

\* C3 as stated: a non-future at position k after futures makes the join fail
\* with a composite error holding BadArgument with index 0 and the mismatch
\* Expected Future / actual type of the element.
C3_Original ==
    \A k \in 0..MaxLen :
        (pc = "done" /\ FirstNonFutureAt(k)) =>
            /\ output.status = "err"
            /\ BadArgument(0) \in Range(output.error)
            /\ Expected("Future", KindOf(value.elems[k + 1])) \in Range(output.error)
\* C3 amended: the composite error holds BadArgument with the position k of
\* the element, and the mismatch Expected Future / actual type of the element.
C3_ElementError ==
    \A k \in 0..MaxLen :
        (pc = "done" /\ FirstNonFutureAt(k)) =>
            /\ output.status = "err"
            /\ Len(output.error) = 2
            /\ BadArgument(k) \in Range(output.error)
            /\ Expected("Future", KindOf(value.elems[k + 1])) \in Range(output.error)
C3_Witness ==
    /\ pc = "done"
    /\ FirstNonFutureAt(2)
    /\ KindOf(value.elems[3]) = "String"
    /\ output.status = "err"

\* C4: a future is polled only after every element of the input has been
\* coerced; a join that stopped at a coercion failure (index short of the
\* input length) has polled none of the futures it had coerced.
C4_CoerceBeforePoll ==
    ~NoPolls =>
        /\ IsCollection
        /\ index = Len(value.elems)
        /\ pc \notin {"call", "created", "coerce"}
\* coercion failed at position 2 after two futures were registered
C4_Witness ==
    /\ pc = "done"
    /\ IsCollection
    /\ index = 2
    /\ Len(value.elems) = 3
    /\ output.status = "err"
    /\ NoPolls

\* C5: a successful join has the shape of its input: Tuple gives Tuple,
\* Vec gives Vec, the empty tuple gives the empty tuple.
C5_ShapePreserved ==
    output.status = "ok" =>
        /\ output.value.kind = value.kind
        /\ output.value.kind \in {"EmptyTuple", "Tuple", "Vec"}
C5_Witness ==
    /\ output.status = "ok"
    /\ value.kind = "Tuple"
    /\ Len(output.value.elems) = 2

\* C6: raw_join with args # 1 returns BadArgumentCount{actual: args,
\* expected: 1}, leaves the stack as it was, moves no value into a join and
\* creates no pending computation.
C6_ArityError ==
    [][(pc = "call" /\ args # 1) =>
          /\ rawResult' = OutputErr(<<BadArgumentCount(args, 1)>>)
          /\ rawResult'.error[1].actual = args
          /\ rawResult'.error[1].expected = 1
          /\ stack' = stack
          /\ value' = NoValue
          /\ pc' = "failed"
          /\ output' = NoOutput
          /\ outerPolls' = 0]_vars
C6_Witness ==
    /\ pc = "failed"
    /\ args = 0
    /\ Len(stack) = 2
    /\ rawResult.status = "err"

\* C7: raw_join with one argument pops one value and pushes one pending
\* computation in one step; until that computation is polled nothing is
\* classified, coerced or polled.
C7_AdapterDefers ==
    /\ [][(pc = "call" /\ args = 1) =>
            /\ pc' = "created"
            /\ rawResult' = OutputOk(EmptyValue)
            /\ value' = stack[Len(stack)]
            /\ Len(stack') = Len(stack)
            /\ stack' = Append(SubSeq(stack, 1, Len(stack) - 1), JoinFuture)]_vars
    /\ [](outerPolls = 0 =>
            /\ pc \in {"call", "created", "failed", "dropped"}
            /\ index = 0
            /\ futures = {}
            /\ access = ReleaseAll
            /\ NoPolls
            /\ suspensions = 0
            /\ output = NoOutput)
C7_Witness ==
    /\ pc = "created"
    /\ Len(stack) = 2
    /\ stack[2] = JoinFuture
    /\ value.kind = "String"
    /\ outerPolls = 0

\* C8: a join over no elements never suspends and is polled once: the empty
\* tuple resolves to the empty tuple, the empty vector to an empty vector,
\* without any completion event.
C8_EmptyImmediate ==
    (pc # "call" /\ value.kind \in {"EmptyTuple", "Tuple", "Vec"} /\ Len(value.elems) = 0) =>
        /\ suspensions = 0
        /\ pc # "suspended"
        /\ outerPolls <= 1
        /\ events = <<>>
        /\ NoPolls
        /\ output.status # "err"
        /\ pc = "done" => output = OutputOk(value)
C8_Witness ==
    /\ pc = "done"
    /\ value = [kind |-> "Vec", elems |-> <<>>]
    /\ output = OutputOk([kind |-> "Vec", elems |-> <<>>])
    /\ outerPolls = 1

\* C9 as stated: an argument that is no empty tuple, tuple or vector fails
\* with argument index 0, expected "tuple or list of futures" and the observed
\* type, before any task is registered or polled.
C9_Original ==
    (pc = "done" /\ Classify(value) = "Unsupported") =>
        /\ output.status = "err"
        /\ BadArgument(0) \in Range(output.error)
        /\ Expected("tuple or list of futures", value.kind) \in Range(output.error)
        /\ NoPolls
\* C9 amended: the error holds BadArgument with index 0 and the mismatch
\* Expected Vec / actual observed type; nothing was registered or polled.
C9_UnsupportedArgument ==
    (pc = "done" /\ Classify(value) = "Unsupported") =>
        /\ output.status = "err"
        /\ Len(output.error) = 2
        /\ BadArgument(0) \in Range(output.error)
        /\ Expected("Vec", value.kind) \in Range(output.error)
        /\ NoPolls
        /\ index = 0
        /\ futures = {}
        /\ writes = <<>>
        /\ access = ReleaseAll
C9_Witness ==
    /\ pc = "done"
    /\ value = ForeignFuture
    /\ output.status = "err"

\* C10: a join over a tuple or vector has resolved successfully only if every
\* slot was written exactly once; once every slot of a non-empty input is
\* written the loop is over and the join cannot fail; a failed join has a
\* slot that was never written; before it resolves no result is in the output.
C10_ResolvesIffAllWritten ==
    IsCollection =>
        /\ output.status = "ok" => AllSlotsWrittenOnce
        /\ output.status = "err" => ~AllSlotsWrittenOnce
        /\ (AllSlotsWrittenOnce /\ Len(value.elems) > 0) =>
               /\ pc \in {"wait", "done"}
               /\ futures = {}
               /\ pc = "done" => output.status = "ok"
        /\ pc # "done" => output = NoOutput
C10_Witness ==
    /\ output.status = "ok"
    /\ Len(value.elems) = 3
    /\ writes = <<1, 1, 1>>
    /\ Len(events) = 3

\* C11: once the caller dropped the pending computation no task is left in
\* the waiting set, every guard is released and no future is polled again;
\* the same holds once the join aborted on a failure of a task.
C11_DropCancelsTasks ==
    /\ []((pc = "dropped" \/ FailureHandled) =>
            /\ futures = {}
            /\ queue = {}
            /\ access = ReleaseAll)
    /\ [][(pc = "dropped" \/ FailureHandled) => (polls' = polls /\ events' = events)]_vars
\* dropped while suspended: one task had completed, the others had been
\* polled and were still waiting
C11_Witness ==
    /\ pc = "dropped"
    /\ Len(value.elems) = 3
    /\ Len(events) = 1
    /\ suspensions = 1
    /\ \A h \in Range(value.elems) : polls[h] = 1

\* C12: every handled completion event takes exactly one task out of the
\* waiting set (a failure empties it), the loop is left for factory(results)
\* only with an empty waiting set, and under a fair executor a created join
\* eventually resolves, with a result or a failure, unless the caller drops it.
C12_WaitLoopTerminates ==
    /\ [][events' # events =>
            /\ Len(events') = Len(events) + 1
            /\ IF events'[Len(events')].ok
               THEN /\ futures' \subseteq futures
                    /\ Cardinality(futures') = Cardinality(futures) - 1
               ELSE futures' = {}]_vars
    /\ [][(pc = "wait" /\ pc' = "done" /\ output'.status = "ok") => futures = {}]_vars
    /\ [](output.status = "ok" => futures = {})
    /\ (pc = "created") ~> (pc = "dropped" \/ (pc = "done" /\ output.status # "none"))
\* resolved after two suspensions of the wait loop
C12_Witness ==
    /\ pc = "done"
    /\ output.status = "ok"
    /\ suspensions = 2
    /\ Len(events) = 2

\* the slots whose content a step changes
SlotsChanged == {k \in DOMAIN results : k \in DOMAIN results' /\ results'[k] # results[k]}

\* C13: every slot is written at most once, and only by the task registered
\* for the element of that position; the waiting tasks have pairwise
\* different indices, each the position of its element, and a registered task
\* never changes; a successful join has written every slot exactly once.
C13_OneWriterPerSlot ==
    /\ [](/\ \A k \in DOMAIN writes : writes[k] <= 1
          /\ \A k \in DOMAIN results : (results[k] # Empty) <=> (writes[k] = 1)
          /\ \A k \in DOMAIN events : events[k].ok =>
                /\ events[k].index < Len(value.elems)
                /\ events[k].future = value.elems[events[k].index + 1]
                /\ writes[events[k].index + 1] = 1
          /\ \A j, k \in DOMAIN events : events[j].index = events[k].index => j = k
          /\ \A t \in futures :
                /\ t.index < index
                /\ t.future = value.elems[t.index + 1]
                /\ writes[t.index + 1] = 0
          /\ \A t, u \in futures : t.index = u.index => t = u
          /\ (output.status = "ok" /\ IsCollection) => AllSlotsWrittenOnce)
    /\ [][\A t \in futures' : t \in futures \/ (pc = "coerce" /\ t.index = index)]_vars
\* two slots written by their tasks, the third task still waiting
C13_Witness ==
    /\ pc = "wait"
    /\ writes = <<0, 1, 1>>
    /\ Cardinality(futures) = 1
    /\ \E t \in futures : t.index = 0

\* C14 as stated: from its creation until it is handed to the factory the
\* results vector has the length of the input.
C14_Original ==
    pc \in {"coerce", "wait", "suspended"} => Len(results) = Len(value.elems)
\* C14 amended: while elements are coerced the results vector has one slot per
\* element coerced so far; in every state of the wait loop it has the length
\* of the input, and a slot write does not change its length.
C14_ResultsLength ==
    /\ [](pc = "coerce" => Len(results) = index /\ index <= Len(value.elems))
    /\ [](pc \in {"wait", "suspended"} => Len(results) = Len(value.elems))
    /\ [][(pc \in {"wait", "suspended"} /\ pc' \in {"wait", "suspended"}) =>
             Len(results') = Len(results)]_vars
    /\ [](output.status = "ok" => Len(output.value.elems) = Len(value.elems))
C14_Witness ==
    /\ pc = "suspended"
    /\ Len(results) = 3
    /\ Len(events) = 1
    /\ Cardinality(futures) = 2

\* C15: the pending computation suspends only in the wait loop, with a task
\* waiting; a step handles at most one completion event, and a completion
\* with a value changes exactly the slot of its task and no other.
C15_SingleWriter ==
    /\ [][suspensions' # suspensions =>
            /\ pc = "wait"
            /\ pc' = "suspended"
            /\ suspensions' = suspensions + 1
            /\ futures # {}]_vars
    /\ [](pc = "suspended" => (futures # {} /\ index = Len(value.elems)))
    /\ [][Len(events') <= Len(events) + 1]_vars
    /\ [][(events' # events /\ events'[Len(events')].ok) =>
            /\ Len(results') = Len(results)
            /\ SlotsChanged = {events'[Len(events')].index + 1}]_vars
    /\ [][events' = events => SlotsChanged = {}]_vars
\* the second completion is handled after the join had suspended twice
C15_Witness ==
    /\ pc = "wait"
    /\ Len(events) = 2
    /\ events[1].ok
    /\ events[2].ok
    /\ suspensions = 2
    /\ Cardinality(futures) = 1

\* C16: raw_join with one argument on a non-empty stack returns Ok whatever
\* the argument is; raw_join itself fails only with BadArgumentCount; a
\* BadArgument or Expected error is only ever the outcome of a poll of the
\* pending computation raw_join pushed.
C16_ErrorsAreDeferred ==
    /\ [][(pc = "call" /\ args = 1 /\ stack # <<>>) =>
            /\ rawResult' = OutputOk(EmptyValue)
            /\ output' = NoOutput
            /\ Top(stack') = JoinFuture]_vars
    /\ [](rawResult.status = "err" =>
            \A e \in Range(rawResult.error) : e.kind \notin {"BadArgument", "Expected"})
    /\ [](output.status = "err" =>
            /\ rawResult = OutputOk(EmptyValue)
            /\ outerPolls >= 1)
\* an unsupported argument, reported by the first poll
C16_Witness ==
    /\ pc = "done"
    /\ value = IntegerValue
    /\ rawResult.status = "ok"
    /\ output.status = "err"
    /\ outerPolls = 1

\* coercion of position j cannot succeed: the element is no future, or it is
\* a handle an earlier position holds already
CoercionFailsAt(j) ==
    \/ KindOf(value.elems[j + 1]) # "Future"
    \/ \E m \in 1..j : value.elems[m] = value.elems[j + 1]
FailingPositions == {j \in 0..(Len(value.elems) - 1) : CoercionFailsAt(j)}

\* C17: positions are coerced in ascending order, one after the other; the
\* join stops at the smallest position that cannot be coerced and reports the
\* error of that position; no task is ever registered for that or a later
\* position, and nothing was polled.
C17_FirstFailureReported ==
    /\ [][index' # index => (pc = "coerce" /\ index' = index + 1)]_vars
    /\ []((IsCollection /\ FailingPositions # {}) =>
            /\ \A j \in FailingPositions : index <= j
            /\ \A t \in futures : \A j \in FailingPositions : t.index < j
            /\ Len(writes) <= index
            /\ NoPolls
            /\ pc = "done" =>
                 /\ index \in FailingPositions
                 /\ output.status = "err"
                 /\ KindOf(value.elems[index + 1]) # "Future" =>
                      /\ BadArgument(index) \in Range(output.error)
                      /\ Expected("Future", KindOf(value.elems[index + 1]))
                             \in Range(output.error))
\* two non-futures of different types after a future: the first is reported
C17_Witness ==
    /\ pc = "done"
    /\ value.elems = <<"f2", "s1", "i1">>
    /\ index = 1
    /\ output.status = "err"

\* position k holds a future handle that an earlier position holds too, and
\* no position before k holds a non-future
SecondOccurrenceAt(k) ==
    /\ IsCollection
    /\ k < Len(value.elems)
    /\ FailingPositions # {}
    /\ \A j \in FailingPositions : k <= j
    /\ KindOf(value.elems[k + 1]) = "Future"
    /\ k \in FailingPositions

\* C18: no handle is held by two waiting tasks, and every waiting task holds
\* exclusive access to its handle; a join whose input repeats a future handle
\* fails when it coerces the second occurrence, having polled nothing.
C18_ExclusiveOwnership ==
    /\ \A t, u \in futures : t.future = u.future => t = u
    /\ \A t \in futures : access[t.future] = "mut"
    /\ \A h \in Handles : access[h] = "mut" => \E t \in futures : t.future = h
    /\ \A h \in Handles : polls[h] <= MaxPolls + 1
    /\ \A k \in 0..MaxLen :
          (pc = "done" /\ SecondOccurrenceAt(k)) =>
             /\ output = OutputErr(<<AccessError(value.elems[k + 1])>>)
             /\ index = k
             /\ NoPolls
             /\ events = <<>>
C18_Witness ==
    /\ pc = "done"
    /\ value.elems = <<"f1", "f2", "f1">>
    /\ index = 2
    /\ output.status = "err"
====
